---------------------------- MODULE Spec2Model ----------------------------
(***************************************************************************)
(* Model of the two self-checking testbenches of the FP32 combinational    *)
(* divider and square-root units:                                          *)
(*     src/tb_fp32_div_comb.cpp    (harness = "div")                       *)
(*     src/tb_fp32_sqrt_comb.cpp   (harness = "sqrt")                      *)
(*                                                                         *)
(* The unit under test (Verilated model) and the SoftFloat reference are   *)
(* external: what the unit drives on its outputs and what the reference    *)
(* returns and raises are inputs of the model, drawn from small sets.      *)
(*                                                                         *)
(* A uint32_t is a pair <<hi, lo>> of 16-bit halves, so that all 32-bit    *)
(* arithmetic of the source (wrap-around included) is computed exactly.    *)
(***************************************************************************)
EXTENDS Integers, Sequences, FiniteSets

VARIABLES
  harness,                  \* "div" or "sqrt": which testbench is running
  verbose,                  \* bool verbose (-v / --verbose)
  pc,                       \* position of main(): the loop being executed
  i,                        \* loop index i (corner loop, divider near-one loop)
  subnormal,                \* loop variable of the subnormal sweep
  divisor_idx,              \* position in divisors[] (divider, inner loop)
  near_one,                 \* loop variable of the sqrt near-one sweep
  num_cc,                   \* int num_cc
  systematic_tests,         \* int systematic_tests
  time_counter,             \* int time_counter (global)
  softfloat_exceptionFlags, \* SoftFloat's sticky exception flag accumulator
  exit_code,                \* -1 while running, else the value returned by main
  report_printed,           \* the coverage summary has been printed
  rec,                      \* evaluation record of the last vector
  any_fail,                 \* history: some evaluated vector disagreed with its reference
  cmp_in,                   \* inputs of one isolated comparison (SpecCmp only)
  scale,                    \* "bounded": scaled loops; "full": sweeps at their source lengths;
                            \* "live": scaled loops and the narrow outcome sets
  draw,                     \* values drawn from the generators for one sample (SpecSample only)
  sample,                   \* what the stratified sampler made of draw (SpecSample only)
  hist                      \* history: vectors evaluated per phase, first operand of the current sweep

vars == <<harness, verbose, pc, i, subnormal, divisor_idx, near_one, num_cc,
          systematic_tests, time_counter, softfloat_exceptionFlags, exit_code,
          report_printed, rec, any_fail, cmp_in, scale, draw, sample, hist>>

-----------------------------------------------------------------------------
(* Bounds of the model (scaled loop lengths).                              *)

\* corner-case entries executed (the catalogs hold 78 and 111 entries)
MaxCornerCases == 3
\* last dividend of the scaled subnormal sweep (source: 0x007fffff)
SubnormSweepEndLo == 8740
\* scaled BOUNDARY_TEST_RANGE of the divider (source: 0x10000)
BoundaryTestRange == 3
\* scaled half width of the sqrt near-one window (source: 0x1000)
SqrtNearOneHalf == 1
\* scaled TOTAL_STRATIFIED_TESTS (source: 60000000)
TotalStratifiedTests == 3

-----------------------------------------------------------------------------
(* uint32_t arithmetic on <<hi, lo>> pairs.                                *)

Half == 2 ^ 16

\* a + b  (mod 2^32)
Add32(a, b) ==
  LET lo == a[2] + b[2]
  IN  <<(a[1] + b[1] + (lo \div Half)) % Half, lo % Half>>

\* a - b  (mod 2^32)
Sub32(a, b) ==
  LET lo     == a[2] - b[2] + Half
      borrow == 1 - (lo \div Half)
  IN  <<(a[1] - b[1] - borrow + Half) % Half, lo % Half>>

\* a > b, unsigned
Gt32(a, b) == a[1] > b[1] \/ (a[1] = b[1] /\ a[2] > b[2])

\* a <= b, unsigned
Le32(a, b) == ~Gt32(a, b)

\* a small non-negative int as a uint32_t
Small32(n) == <<n \div Half, n % Half>>

\* x & 0x7FFFFFFF
Magnitude(x) == <<x[1] % 32768, x[2]>>

\* (x ^ y) & 0x80000000 is non-zero
SignsDiffer(x, y) == (x[1] \div 32768) # (y[1] \div 32768)

\* a uint32_t below 2^31 as an int
ToInt(w) == w[1] * Half + w[2]

\* (u + v) % r for ints 0 <= u, v < r < 2^31, without leaving 31 bits
AddMod(u, v, r) == IF u >= r - v THEN u - (r - v) ELSE u + v

\* x % r on uint32_t, r # 0.  The model checker's integers hold 31 bits, so
\* the cases are split: r > x; r >= 2^31 (then x < 2r); both below 2^31; and
\* x = 2^31 + x' with r below 2^31.
Mod32(x, r) ==
  IF Gt32(r, x) THEN x
  ELSE IF r[1] >= 32768 THEN Sub32(x, r)
  ELSE IF x[1] < 32768 THEN Small32(ToInt(x) % ToInt(r))
  ELSE LET ri  == ToInt(r)
           top == AddMod(2147483647 % ri, 1 % ri, ri)
           low == ToInt(Magnitude(x)) % ri
       IN  Small32(AddMod(top, low, ri))

\* std::isnan of the float whose bits are x: exponent all ones, mantissa non-zero
IsNaN(x) == (x[1] \div 128) % 256 = 255 /\ (x[1] % 128 # 0 \/ x[2] # 0)

PosZero == <<\H0000, \H0000>>
NegZero == <<\H8000, \H0000>>
One     == <<\H3F80, \H0000>>

-----------------------------------------------------------------------------
(* Exception flag words.                                                   *)

\* a | b on the low n bits
RECURSIVE BitOrN(_, _, _)
BitOrN(a, b, n) ==
  IF n = 0 THEN 0
  ELSE (IF a % 2 = 1 \/ b % 2 = 1 THEN 1 ELSE 0) + 2 * BitOrN(a \div 2, b \div 2, n - 1)

BitOr(a, b) == BitOrN(a, b, 8)

\* PackFlags with the shifts of invalid and divide-by-zero exchanged
PackFlags_SwappedShifts(dut) ==
  BitOr(BitOr(BitOr(BitOr(dut.exc_invalid * 8, dut.exc_divzero * 16),
                    dut.exc_overflow * 4),
              dut.exc_underflow * 2),
        dut.exc_inexact)

\* (dut->exc_invalid << 4) | (dut->exc_divzero << 3) | (dut->exc_overflow << 2)
\*   | (dut->exc_underflow << 1) | (dut->exc_inexact)
PackFlags(dut) ==
  BitOr(BitOr(BitOr(BitOr(dut.exc_invalid * 16, dut.exc_divzero * 8),
                    dut.exc_overflow * 4),
              dut.exc_underflow * 2),
        dut.exc_inexact)

\* ClearExceptionFlags with the assignment left out
ClearExceptionFlags_Missing(acc) == acc

\* softfloat_exceptionFlags = 0;
ClearExceptionFlags(acc) == 0

\* The reference call (f32_div / f32_sqrt): it returns ref.v and raises
\* ref.raised into the sticky accumulator, which it never clears.
RaiseFlags(acc, ref) == BitOr(acc, ref.raised)

\* the unit's outputs after eval(), from a result pattern and a 5-bit flag word
DutOutput(y, w) ==
  [y             |-> y,
   exc_invalid   |-> (w \div 16) % 2,
   exc_divzero   |-> (w \div 8) % 2,
   exc_overflow  |-> (w \div 4) % 2,
   exc_underflow |-> (w \div 2) % 2,
   exc_inexact   |-> w % 2]

\* what the reference provider returns for one call
RefOutput(v, raised) == [v |-> v, raised |-> raised]

NoRef == RefOutput(PosZero, 0)

-----------------------------------------------------------------------------
(* The comparison of one vector, as each site of the source computes it;    *)
(* acc is softfloat_exceptionFlags when the evaluation starts.              *)
(* Every site yields a record of the same shape:                           *)
(*   site            where the vector was evaluated                        *)
(*   a, b            operand patterns driven into the unit                 *)
(*   dut             the unit's outputs after eval()                       *)
(*   ref_called      the reference was computed for this vector            *)
(*   ref             what the reference returned and raised                *)
(*   rtl_flags       the harness's packed unit flags                       *)
(*   math_flags      the accumulator as read after the reference call      *)
(*   ulp_diff        the harness's ulp_diff                                *)
(*   value_checked / value_pass      value verdict computed / its value    *)
(*   flag_checked  / flag_pass       flag comparison made / its value      *)
(*   overall_checked  value_pass /\ flag_pass was computed as one verdict   *)
(*   overall_pass     the verdict under which the site reports the vector    *)
(*   diag            a diagnostic line was printed for the vector          *)
(*   drives          how many times the vector was driven into the unit    *)
(*   steps           the steps taken for the vector, in program order      *)
(*   flags_before    softfloat_exceptionFlags when the evaluation starts   *)
(*   flags_after     softfloat_exceptionFlags after the evaluation         *)
(*   phase           the loop of main() that evaluated the vector          *)
(***************************************************************************)

Zero32 == <<0, 0>>

\* ulp_diff taken as the plain difference of the patterns, whatever the signs
DivUlpDiff_PatternDifference(rtl, math, is_nan_case) ==
  IF is_nan_case THEN Zero32
  ELSE IF Gt32(rtl, math) THEN Sub32(rtl, math) ELSE Sub32(math, rtl)

\* tb_fp32_div_comb.cpp, compare_with_softfloat: ulp_diff
DivUlpDiff(rtl, math, is_nan_case) ==
  IF is_nan_case THEN Zero32
  ELSE IF rtl = math THEN Zero32
  ELSE IF (rtl = PosZero /\ math = NegZero) \/ (rtl = NegZero /\ math = PosZero)
       THEN Zero32
  ELSE IF SignsDiffer(rtl, math)
       THEN Add32(Magnitude(rtl), Magnitude(math))
  ELSE IF Gt32(rtl, math) THEN Sub32(rtl, math) ELSE Sub32(math, rtl)

\* result_match with a tolerance of one ULP
result_match_Tolerant(is_nan_case, ulp_diff) ==
  is_nan_case \/ Le32(ulp_diff, <<0, 1>>)

\* bool result_match = is_nan_case || (ulp_diff == 0);
result_match(is_nan_case, ulp_diff) == is_nan_case \/ ulp_diff = Zero32

\* bool flags_match = (rtl_flags == math_flags);
flags_match(rtl_flags, math_flags) == rtl_flags = math_flags

\* bool overall_pass = result_match && flags_match;
overall_pass(value_ok, flags_ok) == value_ok /\ flags_ok

\* tb_fp32_div_comb.cpp, compare_with_softfloat(a_bits, b_bits, test_name,
\* verbose_on_fail, show_debug, always_verbose); test_name and show_debug only
\* shape the text of the printed line.
compare_with_softfloat(a_bits, b_bits, verbose_on_fail, always_verbose, acc, dut, ref) ==
  LET rtl_result   == dut.y
      rtl_flags    == PackFlags(dut) % 256
      cleared      == ClearExceptionFlags(acc)
      after        == RaiseFlags(cleared, ref)
      math_result  == ref.v
      math_flags   == after % 256
      is_nan_case  == IsNaN(rtl_result) /\ IsNaN(math_result)
      ulp_diff     == DivUlpDiff(rtl_result, math_result, is_nan_case)
      value_ok     == result_match(is_nan_case, ulp_diff)
      flags_ok     == flags_match(rtl_flags, math_flags)
      pass         == overall_pass(value_ok, flags_ok)
  IN  [site            |-> "div",
       a               |-> a_bits,
       b               |-> b_bits,
       dut             |-> dut,
       ref_called      |-> TRUE,
       ref             |-> ref,
       rtl_flags       |-> rtl_flags,
       math_flags      |-> math_flags,
       ulp_diff        |-> ulp_diff,
       value_checked   |-> TRUE,
       value_pass      |-> value_ok,
       flag_checked    |-> TRUE,
       flag_pass       |-> flags_ok,
       overall_checked |-> TRUE,
       overall_pass    |-> pass,
       diag            |-> (~pass \/ always_verbose) \/ (verbose_on_fail /\ ~pass),
       drives          |-> 1,
       steps           |-> <<"set", "eval", "read_y", "read_flags", "ref", "compare">>,
       flags_before    |-> acc,
       flags_after     |-> after,
       phase           |-> "NONE"]

\* tb_fp32_sqrt_comb.cpp, corner loop: ulp_diff_cc
ulp_diff_cc(out, math) ==
  IF out = math THEN Zero32
  ELSE IF SignsDiffer(out, math) THEN Add32(Magnitude(out), Magnitude(math))
  ELSE IF Gt32(out, math) THEN Sub32(out, math) ELSE Sub32(math, out)

\* tb_fp32_sqrt_comb.cpp, body of the corner loop for corner_vals[i] = a
SqrtCornerEval(a, acc, dut, ref) ==
  LET out_cc         == dut.y
      cleared        == ClearExceptionFlags(acc)
      after          == RaiseFlags(cleared, ref)
      math_flags_cc  == after
      math_cc        == ref.v
      ulp            == ulp_diff_cc(out_cc, math_cc)
      dut_flags_cc   == PackFlags(dut)
      is_nan_case_cc == IsNaN(math_cc) /\ IsNaN(out_cc)
      pass_cc        == is_nan_case_cc \/ ulp = Zero32
  IN  [site            |-> "sqrt_corner",
       a               |-> a,
       b               |-> a,
       dut             |-> dut,
       ref_called      |-> TRUE,
       ref             |-> ref,
       rtl_flags       |-> dut_flags_cc,
       math_flags      |-> math_flags_cc,
       ulp_diff        |-> ulp,
       value_checked   |-> TRUE,
       value_pass      |-> pass_cc,
       flag_checked    |-> FALSE,
       flag_pass       |-> TRUE,
       overall_checked |-> FALSE,
       overall_pass    |-> pass_cc,
       diag            |-> (~pass_cc \/ verbose),
       drives          |-> 1,
       steps           |-> <<"set", "eval", "read_y", "ref", "read_flags", "compare">>,
       flags_before    |-> acc,
       flags_after     |-> after,
       phase           |-> "NONE"]

\* tb_fp32_sqrt_comb.cpp, body of the subnormal sweep
SqrtSubnormalEval(a, acc, dut, ref) ==
  LET cleared    == ClearExceptionFlags(acc)
      after      == RaiseFlags(cleared, ref)
      math_flags == after
      dut_flags  == PackFlags(dut)
  IN  [site            |-> "sqrt_subnormal",
       a               |-> a,
       b               |-> a,
       dut             |-> dut,
       ref_called      |-> TRUE,
       ref             |-> ref,
       rtl_flags       |-> dut_flags,
       math_flags      |-> math_flags,
       ulp_diff        |-> Zero32,
       value_checked   |-> FALSE,
       value_pass      |-> TRUE,
       flag_checked    |-> TRUE,
       flag_pass       |-> (dut_flags = math_flags),
       overall_checked |-> FALSE,
       overall_pass    |-> (dut_flags = math_flags),
       diag            |-> (dut_flags # math_flags),
       drives          |-> 1,
       steps           |-> <<"set", "eval", "ref", "read_flags", "compare">>
                           \o (IF dut_flags # math_flags THEN <<"read_y">> ELSE <<>>),
       flags_before    |-> acc,
       flags_after     |-> after,
       phase           |-> "NONE"]

\* tb_fp32_sqrt_comb.cpp, body of the near-one sweep: the unit is evaluated,
\* nothing is read back and no reference is computed
SqrtNearOneEval(a, acc, dut) ==
  [site            |-> "sqrt_near_one",
   a               |-> a,
   b               |-> a,
   dut             |-> dut,
   ref_called      |-> FALSE,
   ref             |-> NoRef,
   rtl_flags       |-> 0,
   math_flags      |-> 0,
   ulp_diff        |-> Zero32,
   value_checked   |-> FALSE,
   value_pass      |-> TRUE,
   flag_checked    |-> FALSE,
   flag_pass       |-> TRUE,
   overall_checked |-> FALSE,
   overall_pass    |-> TRUE,
   diag            |-> FALSE,
   drives          |-> 1,
   steps           |-> <<"set", "eval">>,
   flags_before    |-> acc,
   flags_after     |-> acc,
   phase           |-> "NONE"]

\* tb_fp32_sqrt_comb.cpp, random loop: ulp_diff
sqrt_ulp_diff(out, math) ==
  IF out = math THEN Zero32
  ELSE IF SignsDiffer(out, math) THEN Add32(Magnitude(out), Magnitude(math))
  ELSE IF Gt32(out, math) THEN Sub32(out, math) ELSE Sub32(math, out)

\* tb_fp32_sqrt_comb.cpp, random loop: evaluation of rand_bits = a
SqrtRandomEval(a, acc, dut, ref) ==
  LET out_conv     == dut.y
      cleared      == ClearExceptionFlags(acc)
      after        == RaiseFlags(cleared, ref)
      math_flags   == after
      math_conv    == ref.v
      ulp_diff     == sqrt_ulp_diff(out_conv, math_conv)
      dut_flags    == PackFlags(dut)
      flag_pass    == dut_flags = math_flags
      is_nan_case  == IsNaN(math_conv) /\ IsNaN(out_conv)
      pass         == is_nan_case \/ ulp_diff = Zero32
      overall      == pass /\ flag_pass
  IN  [site            |-> "sqrt_random",
       a               |-> a,
       b               |-> a,
       dut             |-> dut,
       ref_called      |-> TRUE,
       ref             |-> ref,
       rtl_flags       |-> dut_flags,
       math_flags      |-> math_flags,
       ulp_diff        |-> ulp_diff,
       value_checked   |-> TRUE,
       value_pass      |-> pass,
       flag_checked    |-> TRUE,
       flag_pass       |-> flag_pass,
       overall_checked |-> TRUE,
       overall_pass    |-> overall,
       diag            |-> (~overall \/ verbose),
       drives          |-> 1,
       steps           |-> <<"set", "eval", "read_y", "ref", "read_flags", "compare">>,
       flags_before    |-> acc,
       flags_after     |-> after,
       phase           |-> "NONE"]

\* no vector evaluated yet
NoRec ==
  [site            |-> "none",
   a               |-> Zero32,
   b               |-> Zero32,
   dut             |-> DutOutput(PosZero, 0),
   ref_called      |-> FALSE,
   ref             |-> NoRef,
   rtl_flags       |-> 0,
   math_flags      |-> 0,
   ulp_diff        |-> Zero32,
   value_checked   |-> FALSE,
   value_pass      |-> TRUE,
   flag_checked    |-> FALSE,
   flag_pass       |-> TRUE,
   overall_checked |-> FALSE,
   overall_pass    |-> TRUE,
   diag            |-> FALSE,
   drives          |-> 0,
   steps           |-> <<>>,
   flags_before    |-> 0,
   flags_after     |-> 0,
   phase           |-> "NONE"]

-----------------------------------------------------------------------------
(* Static tables of the two testbenches.                                   *)

WEIGHT_SUBNORMALS     == 10
WEIGHT_SMALL_NORMALS  == 8
WEIGHT_MEDIUM_NORMALS == 5
WEIGHT_NEAR_ONE       == 15
WEIGHT_LARGE_NORMALS  == 8
WEIGHT_NEAR_OVERFLOW  == 10
WEIGHT_SPECIAL_VALUES == 12

\* TestConfig::SYSTEMATIC_SUBNORM_STEP = 0x00001111
SYSTEMATIC_SUBNORM_STEP == <<\H0000, \H1111>>

\* subnormal += 0x00001111 of the sqrt sweep
SQRT_SUBNORM_STEP == <<\H0000, \H1111>>

Region(s, e, w) == [start |-> s, end |-> e, weight |-> w]

\* TestRegion regions[] of the divider
div_regions ==
  << Region(<<\H0000, \H0000>>, <<\H0080, \H0000>>, WEIGHT_SUBNORMALS),
     Region(<<\H0080, \H0000>>, <<\H3400, \H0000>>, WEIGHT_SMALL_NORMALS),
     Region(<<\H3400, \H0000>>, <<\H3F00, \H0000>>, WEIGHT_MEDIUM_NORMALS),
     Region(<<\H3F00, \H0000>>, <<\H4080, \H0000>>, WEIGHT_NEAR_ONE),
     Region(<<\H4080, \H0000>>, <<\H7F00, \H0000>>, WEIGHT_LARGE_NORMALS),
     Region(<<\H7F00, \H0000>>, <<\H7F80, \H0000>>, WEIGHT_NEAR_OVERFLOW),
     Region(<<\H7F80, \H0000>>, <<\H7FFF, \HFFFF>>, WEIGHT_SPECIAL_VALUES),
     Region(<<\H8000, \H0000>>, <<\H8080, \H0000>>, WEIGHT_SUBNORMALS),
     Region(<<\H8080, \H0000>>, <<\HB400, \H0000>>, WEIGHT_SMALL_NORMALS),
     Region(<<\HB400, \H0000>>, <<\HBF00, \H0000>>, WEIGHT_MEDIUM_NORMALS),
     Region(<<\HBF00, \H0000>>, <<\HC080, \H0000>>, WEIGHT_NEAR_ONE),
     Region(<<\HC080, \H0000>>, <<\HFF00, \H0000>>, WEIGHT_LARGE_NORMALS),
     Region(<<\HFF00, \H0000>>, <<\HFF80, \H0000>>, WEIGHT_NEAR_OVERFLOW),
     Region(<<\HFF80, \H0000>>, <<\HFFFF, \HFFFF>>, WEIGHT_SPECIAL_VALUES) >>

\* the sqrt table without the region of negative zero
sqrt_regions_NoNegZero ==
  << Region(<<\H0000, \H0000>>, <<\H0080, \H0000>>, 15),
     Region(<<\H0080, \H0000>>, <<\H3400, \H0000>>, 10),
     Region(<<\H3400, \H0000>>, <<\H3F00, \H0000>>, 8),
     Region(<<\H3F00, \H0000>>, <<\H4080, \H0000>>, 20),
     Region(<<\H4080, \H0000>>, <<\H7F00, \H0000>>, 12),
     Region(<<\H7F00, \H0000>>, <<\H7F80, \H0000>>, 10),
     Region(<<\H7F80, \H0000>>, <<\H7FFF, \HFFFF>>, 15),
     Region(<<\H8000, \H0001>>, <<\HFFFF, \HFFFF>>, 5) >>

\* TestRegion regions[] of the sqrt unit
sqrt_regions ==
  << Region(<<\H0000, \H0000>>, <<\H0080, \H0000>>, 15),
     Region(<<\H0080, \H0000>>, <<\H3400, \H0000>>, 10),
     Region(<<\H3400, \H0000>>, <<\H3F00, \H0000>>, 8),
     Region(<<\H3F00, \H0000>>, <<\H4080, \H0000>>, 20),
     Region(<<\H4080, \H0000>>, <<\H7F00, \H0000>>, 12),
     Region(<<\H7F00, \H0000>>, <<\H7F80, \H0000>>, 10),
     Region(<<\H7F80, \H0000>>, <<\H7FFF, \HFFFF>>, 15),
     Region(<<\H8000, \H0000>>, <<\H8000, \H0000>>, 5),
     Region(<<\H8000, \H0001>>, <<\HFFFF, \HFFFF>>, 5) >>

\* int total_weight = 0; for (auto& region : regions) total_weight += region.weight;
RECURSIVE SumWeights(_, _)
SumWeights(regions, n) ==
  IF n = 0 THEN 0 ELSE SumWeights(regions, n - 1) + regions[n].weight

total_weight(regions) == SumWeights(regions, Len(regions))

\* uint32_t divisors[] of the divider's subnormal sweep
divisors ==
  << <<\H3F80, \H0000>>, <<\H4000, \H0000>>, <<\H3F00, \H0000>>,
     <<\H4120, \H0000>>, <<\H3E80, \H0000>> >>

\* corner_cases[] of the divider: {a, b} bit patterns, in table order
div_corner_cases ==
  << <<<<\H0000, \H0000>>, <<\H0000, \H0000>>>>,
     <<<<\H0000, \H0000>>, <<\H3F80, \H0000>>>>,
     <<<<\H8000, \H0000>>, <<\H3F80, \H0000>>>>,
     <<<<\H3F80, \H0000>>, <<\H0000, \H0000>>>>,
     <<<<\H3F80, \H0000>>, <<\H8000, \H0000>>>>,
     <<<<\H7F80, \H0000>>, <<\H3F80, \H0000>>>>,
     <<<<\HFF80, \H0000>>, <<\H3F80, \H0000>>>>,
     <<<<\H7F80, \H0000>>, <<\H7F80, \H0000>>>>,
     <<<<\H7F80, \H0000>>, <<\HFF80, \H0000>>>>,
     <<<<\H3F80, \H0000>>, <<\H7F80, \H0000>>>>,
     <<<<\H3F80, \H0000>>, <<\HFF80, \H0000>>>>,
     <<<<\H7FC0, \H0000>>, <<\H3F80, \H0000>>>>,
     <<<<\H7FA0, \H0000>>, <<\H3F80, \H0000>>>>,
     <<<<\H3F80, \H0000>>, <<\H7FC0, \H0000>>>>,
     <<<<\H3F80, \H0000>>, <<\H7FA0, \H0000>>>>,
     <<<<\H0000, \H0001>>, <<\H0000, \H0001>>>>,
     <<<<\H0000, \H0001>>, <<\H3F80, \H0000>>>>,
     <<<<\H007F, \HFFFF>>, <<\H3F80, \H0000>>>>,
     <<<<\H0080, \H0000>>, <<\H0080, \H0000>>>>,
     <<<<\H0080, \H0000>>, <<\H4000, \H0000>>>>,
     <<<<\H0080, \H0001>>, <<\H4000, \H0000>>>>,
     <<<<\H007F, \HFFFF>>, <<\H4000, \H0000>>>>,
     <<<<\H7F7F, \HFFFF>>, <<\H3F80, \H0000>>>>,
     <<<<\H7F7F, \HFFFF>>, <<\H3F00, \H0000>>>>,
     <<<<\H7F00, \H0000>>, <<\H3F00, \H0000>>>>,
     <<<<\H7E80, \H0000>>, <<\H3E80, \H0000>>>>,
     <<<<\H3F80, \H0000>>, <<\H3F80, \H0000>>>>,
     <<<<\H4000, \H0000>>, <<\H4000, \H0000>>>>,
     <<<<\H4040, \H0000>>, <<\H4000, \H0000>>>>,
     <<<<\H4080, \H0000>>, <<\H4000, \H0000>>>>,
     <<<<\H4120, \H0000>>, <<\H4080, \H0000>>>>,
     <<<<\H42C8, \H0000>>, <<\H4120, \H0000>>>>,
     <<<<\H3F80, \H0000>>, <<\H4040, \H0000>>>>,
     <<<<\H4000, \H0000>>, <<\H4040, \H0000>>>>,
     <<<<\H3F80, \H0000>>, <<\H4120, \H0000>>>>,
     <<<<\H3F80, \H0000>>, <<\H40E0, \H0000>>>>,
     <<<<\H4120, \H0000>>, <<\H4040, \H0000>>>>,
     <<<<\H4040, \H0000>>, <<\H4800, \H0000>>>>,
     <<<<\H40A0, \H0000>>, <<\H4880, \H0000>>>>,
     <<<<\H3F80, \H0001>>, <<\H4800, \H0000>>>>,
     <<<<\H3F7F, \HFFFF>>, <<\H4800, \H0000>>>>,
     <<<<\H3F80, \H0000>>, <<\H4F80, \H0000>>>>,
     <<<<\H3F80, \H0000>>, <<\H7000, \H0000>>>>,
     <<<<\H3880, \H0000>>, <<\H7F00, \H0000>>>>,
     <<<<\H0800, \H0000>>, <<\H4F80, \H0000>>>>,
     <<<<\H4000, \H0001>>, <<\H4040, \H0000>>>>,
     <<<<\H4040, \H0001>>, <<\H4000, \H0000>>>>,
     <<<<\H7F7F, \HFFFE>>, <<\H4000, \H0000>>>>,
     <<<<\H8000, \H0000>>, <<\H8000, \H0000>>>>,
     <<<<\HBF80, \H0000>>, <<\H3F80, \H0000>>>>,
     <<<<\H3F80, \H0000>>, <<\HBF80, \H0000>>>>,
     <<<<\HBF80, \H0000>>, <<\HBF80, \H0000>>>>,
     <<<<\HFF80, \H0000>>, <<\H8000, \H0000>>>>,
     <<<<\H7F80, \H0000>>, <<\H8000, \H0000>>>>,
     <<<<\H3781, \HFD3F>>, <<\HF848, \H0000>>>>,
     <<<<\HAACF, \H58B8>>, <<\HEAE1, \H320A>>>>,
     <<<<\H9604, \H2D06>>, <<\H5D04, \H2D06>>>>,
     <<<<\H9BE3, \H4BB1>>, <<\HE098, \H8600>>>>,
     <<<<\H0F87, \H46FE>>, <<\H514C, \H0000>>>>,
     <<<<\H920C, \H6BE1>>, <<\H517D, \HA98A>>>>,
     <<<<\H057E, \H2068>>, <<\HC4B4, \H9DF2>>>>,
     <<<<\HA8EC, \H1495>>, <<\H68A4, \H5FAD>>>>,
     <<<<\H325C, \HD2C3>>, <<\HF620, \H9948>>>>,
     <<<<\H29EE, \HD5EB>>, <<\HEFBB, \HFC00>>>>,
     <<<<\H3400, \H0000>>, <<\H7F7F, \HFFFF>>>>,
     <<<<\H7F7F, \HFFFF>>, <<\H3400, \H0000>>>>,
     <<<<\H0080, \H0000>>, <<\H7F7F, \HFFFF>>>>,
     <<<<\H7F7F, \HFFFF>>, <<\H0080, \H0000>>>>,
     <<<<\H0000, \H0001>>, <<\H7F7F, \HFFFF>>>>,
     <<<<\H7F7F, \HFFFF>>, <<\H0000, \H0001>>>>,
     <<<<\H3F00, \H0000>>, <<\H3F80, \H0000>>>>,
     <<<<\H3E80, \H0000>>, <<\H3F80, \H0000>>>>,
     <<<<\H3E00, \H0000>>, <<\H3F80, \H0000>>>>,
     <<<<\H3D80, \H0000>>, <<\H3F80, \H0000>>>>,
     <<<<\H4000, \H0003>>, <<\H4040, \H0000>>>>,
     <<<<\H4000, \H0005>>, <<\H4040, \H0000>>>>,
     <<<<\H4000, \H0007>>, <<\H4040, \H0000>>>>,
     <<<<\H4000, \H000F>>, <<\H4040, \H0000>>>> >>

\* corner_vals[] of the sqrt unit, in table order
sqrt_corner_vals ==
  << <<\H0000, \H0000>>, <<\H8000, \H0000>>, <<\H3F80, \H0000>>,
     <<\H7F80, \H0000>>, <<\HFF80, \H0000>>, <<\H7FC0, \H0000>>,
     <<\H7FA0, \H0000>>, <<\HBF80, \H0000>>, <<\H8000, \H0001>>,
     <<\H8080, \H0000>>, <<\HFF7F, \HFFFF>>, <<\H0000, \H0001>>,
     <<\H0000, \H0002>>, <<\H0000, \H0004>>, <<\H0000, \H0100>>,
     <<\H007F, \HFFFF>>, <<\H0080, \H0000>>, <<\H0080, \H0001>>,
     <<\H0080, \H0100>>, <<\H4000, \H0000>>, <<\H4080, \H0000>>,
     <<\H4110, \H0000>>, <<\H4180, \H0000>>, <<\H4248, \H0000>>,
     <<\H42C8, \H0000>>, <<\H447A, \H0000>>, <<\H461C, \H4000>>,
     <<\H4B00, \H0000>>, <<\H4C00, \H0000>>, <<\H3E80, \H0000>>,
     <<\H3F00, \H0000>>, <<\H3F80, \H0000>>, <<\H4000, \H0000>>,
     <<\H4080, \H0000>>, <<\H4100, \H0000>>, <<\H4180, \H0000>>,
     <<\H4200, \H0000>>, <<\H7F7F, \HFFFF>>, <<\H3F7F, \HFFFF>>,
     <<\H3F80, \H0001>>, <<\H007F, \HFFFF>>, <<\H0080, \H0000>>,
     <<\H3400, \H0000>>, <<\H7F00, \H0000>>, <<\H3F49, \H0FDB>>,
     <<\H4049, \H0FDB>>, <<\H402D, \HF854>>, <<\H40C9, \H0FDB>>,
     <<\H3EAA, \HAAAB>>, <<\H3F2A, \HAAAB>>, <<\H3F80, \H0100>>,
     <<\H3F80, \H0200>>, <<\H3F80, \H0300>>, <<\H4000, \H0100>>,
     <<\H4000, \H0200>>, <<\H3380, \H0000>>, <<\H4F80, \H0000>>,
     <<\H7000, \H0000>>, <<\H0F80, \H0000>>, <<\H0800, \H0000>>,
     <<\H3F40, \H0000>>, <<\H3FC0, \H0000>>, <<\H4020, \H0000>>,
     <<\H4060, \H0000>>, <<\H40A0, \H0000>>, <<\H40E0, \H0000>>,
     <<\H3F80, \H0001>>, <<\H3F80, \H0003>>, <<\H3F80, \H0007>>,
     <<\H3F80, \H000F>>, <<\H4000, \H0001>>, <<\H4000, \H0003>>,
     <<\H40E4, \H006E>>, <<\H016F, \H609C>>, <<\H2812, \HC1B1>>,
     <<\H67BE, \HE97D>>, <<\H1AB8, \H2050>>, <<\H5904, \H2172>>,
     <<\H321B, \HBCDD>>, <<\H36A9, \H405F>>, <<\H3FAB, \H6860>>,
     <<\H72CB, \H1062>>, <<\H6E00, \H2F83>>, <<\H2605, \HBA5A>>,
     <<\H4298, \H50B4>>, <<\H696C, \H0B48>>, <<\H01CD, \HF635>>,
     <<\H4B97, \H5F95>>, <<\H3B2C, \H6F35>>, <<\H3D80, \H0000>>,
     <<\H3E00, \H0000>>, <<\H3E80, \H0000>>, <<\H3EC0, \H0000>>,
     <<\H3F00, \H0000>>, <<\H0000, \H0010>>, <<\H0000, \H1000>>,
     <<\H0001, \H0000>>, <<\H0010, \H0000>>, <<\H007F, \H0000>>,
     <<\H7F00, \H0000>>, <<\H0100, \H0000>>, <<\H7E00, \H0000>>,
     <<\H0200, \H0000>>, <<\H3F80, \H0000>>, <<\H3FC0, \H0000>>,
     <<\H3FE0, \H0000>>, <<\H3FF0, \H0000>>, <<\H3FF8, \H0000>>,
     <<\H3FFC, \H0000>>, <<\H3FFE, \H0000>>, <<\H3FFF, \H0000>> >>

Min(x, y) == IF x < y THEN x ELSE y

One01(b) == IF b THEN 1 ELSE 0

\* num_cc = sizeof(corner_cases) / sizeof(corner_cases[0]), cut to the bound
DivNumCC == Min(Len(div_corner_cases), MaxCornerCases)

\* num_cc = sizeof(corner_vals) / sizeof(corner_vals[0]), cut to the bound
SqrtNumCC == Min(Len(sqrt_corner_vals), MaxCornerCases)

\* range of the subnormal sweep: [0x00000001, 0x007fffff]; at the bounded
\* scale the end is cut to the bound
SubnormSweepStart == <<\H0000, \H0001>>

\* a sweep that ends at 0x007f0000
SubnormSweepEnd_Short == <<\H007F, \H0000>>

SubnormSweepEnd ==
  IF scale = "full" THEN <<\H007F, \HFFFF>> ELSE <<\H0000, SubnormSweepEndLo>>

\* TestConfig::BOUNDARY_TEST_RANGE = 0x10000; at the bounded scale the bound
BOUNDARY_TEST_RANGE == IF scale = "full" THEN 65536 ELSE BoundaryTestRange

\* window of the sqrt near-one sweep: [0x3f7ff000, 0x3f801000]; at the
\* bounded scale cut to the bound
SqrtNearOneStart ==
  IF scale = "full" THEN <<\H3F7F, \HF000>> ELSE Sub32(One, Small32(SqrtNearOneHalf))

SqrtNearOneEnd ==
  IF scale = "full" THEN <<\H3F80, \H1000>> ELSE Add32(One, Small32(SqrtNearOneHalf))

-----------------------------------------------------------------------------
(* Stratified random sampler.                                              *)

\* dis(gen1) % total_weight
RegionSelect(regions, raw) == ToInt(Mod32(raw, Small32(total_weight(regions))))

\* the walk with region_select <= current_weight as its test
RECURSIVE WalkRegions_Inclusive(_, _, _, _)
WalkRegions_Inclusive(regions, region_select, k, current_weight) ==
  IF k > Len(regions) THEN 0
  ELSE IF region_select <= current_weight + regions[k].weight THEN k
  ELSE WalkRegions_Inclusive(regions, region_select, k + 1,
                             current_weight + regions[k].weight)

\* the walk over regions[]: index of the first region whose cumulative weight
\* exceeds region_select, 0 when the loop ends without a selection (nullptr)
RECURSIVE WalkRegions(_, _, _, _)
WalkRegions(regions, region_select, k, current_weight) ==
  IF k > Len(regions) THEN 0
  ELSE IF region_select < current_weight + regions[k].weight THEN k
  ELSE WalkRegions(regions, region_select, k + 1, current_weight + regions[k].weight)

SelectRegion(regions, region_select) == WalkRegions(regions, region_select, 1, 0)

\* divider: rand_bits_a
DivFirstOperand(region, raw) ==
  IF region.start = region.end THEN region.start
  ELSE LET range_a == Sub32(region.end, region.start)
       IN  Add32(region.start, Mod32(raw, range_a))

\* divider: rand_bits_b drawn in the selected region (gen2)
DivSameRegionOperand(region, raw) ==
  LET range_b == Sub32(region.end, region.start)
  IN  Add32(region.start, Mod32(raw, Add32(range_b, Small32(1))))

\* rand_bits_b with the same-region draw on every second iteration
DivSecondOperand_EverySecond(region, tc, raw2, raw3) ==
  IF tc % 2 = 0 THEN DivSameRegionOperand(region, raw2) ELSE raw3

\* divider: rand_bits_b
DivSecondOperand(region, tc, raw2, raw3) ==
  IF tc % 3 = 0 THEN DivSameRegionOperand(region, raw2) ELSE raw3

\* sqrt: dis(gen2) % (range + 1) in uint64_t; range + 1 = 2^32 leaves raw as it is
ModRangePlusOne(raw, range) ==
  IF range = <<Half - 1, Half - 1>> THEN raw
  ELSE Mod32(raw, Add32(range, Small32(1)))

\* sqrt: rand_bits
SqrtOperand(region, raw) ==
  IF region.start = region.end THEN region.start
  ELSE LET range == Sub32(region.end, region.start)
       IN  IF range # Zero32 THEN Add32(region.start, ModRangePlusOne(raw, range))
           ELSE region.start

(***************************************************************************)
(* One pass through the sampling code of the random loop.  d holds the     *)
(* values the generators return when they are asked: d.raw_sel and d.raw_a *)
(* are the next two values of gen1, d.raw_b2 the next value of gen2 and    *)
(* d.raw_b3 the next value of gen3.  used counts the values taken from     *)
(* each generator in this pass.                                            *)
(***************************************************************************)

\* divider: lines 419-449 for time_counter = tc
DivSample(tc, d) ==
  LET region_select   == RegionSelect(div_regions, d.raw_sel)
      idx             == SelectRegion(div_regions, region_select)
      selected_region == div_regions[idx]
      rand_bits_a     == DivFirstOperand(selected_region, d.raw_a)
      rand_bits_b     == DivSecondOperand(selected_region, tc, d.raw_b2, d.raw_b3)
  IN  [table         |-> "div",
       region_select |-> region_select,
       region_idx    |-> idx,
       region        |-> selected_region,
       a             |-> rand_bits_a,
       b             |-> rand_bits_b,
       used          |-> [gen1 |-> 1 + One01(selected_region.start # selected_region.end),
                          gen2 |-> One01(tc % 3 = 0),
                          gen3 |-> One01(tc % 3 # 0)]]

\* sqrt: lines 301-327
SqrtSample(d) ==
  LET region_select   == RegionSelect(sqrt_regions, d.raw_sel)
      idx             == SelectRegion(sqrt_regions, region_select)
      selected_region == sqrt_regions[IF idx = 0 THEN 1 ELSE idx]
      rand_bits       == SqrtOperand(selected_region, d.raw_b2)
  IN  [table         |-> "sqrt",
       region_select |-> region_select,
       region_idx    |-> idx,
       region        |-> selected_region,
       a             |-> rand_bits,
       b             |-> rand_bits,
       used          |-> [gen1 |-> 1,
                          gen2 |-> One01(selected_region.start # selected_region.end),
                          gen3 |-> 0]]

-----------------------------------------------------------------------------
(* Inputs of the model: what the unit and the reference may answer, and    *)
(* what the generators may draw.                                           *)

QNaN == <<\H7FC0, \H0000>>

MainResults   == {PosZero, NegZero, One}
MainFlagWords == {0, 16}

MainDutOutputs == {DutOutput(y, w) : y \in MainResults, w \in MainFlagWords}
MainRefOutputs == {RefOutput(v, w) : v \in MainResults, w \in MainFlagWords}

\* the narrow outcome sets: the unit answers +0 without flags, 1.0 without
\* flags or +0 with invalid; the reference +0 without flags
SweepDutOutputs == {DutOutput(PosZero, 0), DutOutput(One, 0), DutOutput(PosZero, 16)}
SweepRefOutputs == {RefOutput(PosZero, 0)}

UnitOutputs      == IF scale = "bounded" THEN MainDutOutputs ELSE SweepDutOutputs
ReferenceOutputs == IF scale = "bounded" THEN MainRefOutputs ELSE SweepRefOutputs

\* values a std::mt19937 draw through dis(0, 0xFFFFFFFF) may take
RawDraws == {<<\H0000, \H0000>>, <<\HFFFF, \HFFFF>>}

\* what gen1 (twice), gen2 and gen3 return in one iteration of the random loop
MainDraws == [raw_sel : RawDraws, raw_a : RawDraws, raw_b2 : RawDraws, raw_b3 : RawDraws]

\* what one iteration of the divider's random loop may sample; the sampling
\* code reads time_counter only through time_counter % 3
DivSamples == [m \in 0..2 |-> {DivSample(m, d) : d \in MainDraws}]

\* what one iteration of the sqrt random loop may sample
SqrtSamples == {SqrtSample(d) : d \in MainDraws}

\* the vector disagrees with its reference: values not equivalent (both NaN,
\* identical, or zeros of either sign) or flag words different
Mismatch(r) ==
  /\ r.ref_called
  /\ \/ ~ \/ IsNaN(r.dut.y) /\ IsNaN(r.ref.v)
          \/ r.dut.y = r.ref.v
          \/ r.dut.y \in {PosZero, NegZero} /\ r.ref.v \in {PosZero, NegZero}
     \/ r.dut.exc_invalid * 16 + r.dut.exc_divzero * 8 + r.dut.exc_overflow * 4
          + r.dut.exc_underflow * 2 + r.dut.exc_inexact # r.ref.raised

-----------------------------------------------------------------------------
(* The run of one testbench.                                               *)

\* the run so far: vectors evaluated in the corner loop, in the two sweeps and
\* in the random loop, and the first operand of the first vector of the sweep
\* that is running or was run last
NoHist == [corner |-> 0, systematic |-> 0, random |-> 0, sweep_first |-> Zero32]

Tally(r) ==
  [corner      |-> hist.corner + One01(pc = "CORNER_CASES"),
   systematic  |-> hist.systematic + One01(pc \in {"SUBNORMAL_SWEEP", "NEAR_ONE_SWEEP"}),
   random      |-> hist.random + One01(pc = "STRATIFIED_RANDOM"),
   sweep_first |-> IF pc \notin {"SUBNORMAL_SWEEP", "NEAR_ONE_SWEEP"} THEN Zero32
                   ELSE IF rec.phase = pc THEN hist.sweep_first ELSE r.a]

\* nothing drawn, nothing sampled
NoDraw == [raw_sel |-> Zero32, raw_a |-> Zero32, raw_b2 |-> Zero32, raw_b3 |-> Zero32]

NoSample == [table |-> "none"]

Init ==
  /\ scale = "bounded"
  /\ harness \in {"div", "sqrt"}
  /\ verbose \in BOOLEAN
  /\ pc = "START"
  /\ i = 0
  /\ subnormal = SubnormSweepStart
  /\ divisor_idx = 1
  /\ near_one = SqrtNearOneStart
  /\ num_cc = 0
  /\ systematic_tests = 0
  /\ time_counter = 0
  /\ softfloat_exceptionFlags = 0
  /\ exit_code = -1
  /\ report_printed = FALSE
  /\ rec = NoRec
  /\ any_fail = FALSE
  /\ cmp_in = NoRec
  /\ draw = NoDraw
  /\ sample = NoSample
  /\ hist = NoHist

\* Abort with the return left out: the failure is recorded and the loop goes on
Abort_NoReturn(r) ==
  /\ rec' = [r EXCEPT !.phase = pc]
  /\ softfloat_exceptionFlags' = r.flags_after
  /\ any_fail' = (any_fail \/ Mismatch(r))
  /\ hist' = Tally(r)
  /\ UNCHANGED <<harness, verbose, pc, i, subnormal, divisor_idx, near_one, num_cc,
                 systematic_tests, time_counter, exit_code, report_printed, cmp_in,
                 scale, draw, sample>>

\* return 1;
Abort(r) ==
  /\ rec' = [r EXCEPT !.phase = pc]
  /\ softfloat_exceptionFlags' = r.flags_after
  /\ any_fail' = (any_fail \/ Mismatch(r))
  /\ hist' = Tally(r)
  /\ exit_code' = 1
  /\ pc' = "EXIT"
  /\ UNCHANGED <<harness, verbose, i, subnormal, divisor_idx, near_one, num_cc,
                 systematic_tests, time_counter, report_printed, cmp_in,
                 scale, draw, sample>>

\* the vector has been evaluated and the run goes on
Evaluated(r) ==
  /\ rec' = [r EXCEPT !.phase = pc]
  /\ softfloat_exceptionFlags' = r.flags_after
  /\ any_fail' = (any_fail \/ Mismatch(r))
  /\ hist' = Tally(r)
  /\ UNCHANGED <<harness, verbose, num_cc, exit_code, report_printed, cmp_in,
                 scale, draw, sample>>

\* main() up to the corner loop: num_cc is set from the catalog
Start ==
  /\ pc = "START"
  /\ num_cc' = (IF harness = "div" THEN DivNumCC ELSE SqrtNumCC)
  /\ pc' = "CORNER_CASES"
  /\ UNCHANGED <<harness, verbose, i, subnormal, divisor_idx, near_one,
                 systematic_tests, time_counter, softfloat_exceptionFlags,
                 exit_code, report_printed, rec, any_fail, cmp_in, scale, draw, sample, hist>>

(* The divider testbench.                                                  *)

\* DivAfterCorner with the systematic sweeps left out
DivAfterCorner_SkipSweep == "STRATIFIED_RANDOM"

\* the phase entered when the corner loop of the divider ends
DivAfterCorner == "SUBNORMAL_SWEEP"

\* one iteration of the corner loop: for (int i = 0; i < num_cc; ++i)
DivCornerCase ==
  /\ harness = "div"
  /\ pc = "CORNER_CASES"
  /\ i < num_cc
  /\ \E dut \in UnitOutputs, ref \in ReferenceOutputs :
     \E cc \in {div_corner_cases[i + 1]} :
     \E first \in {compare_with_softfloat(cc[1], cc[2], ~verbose, FALSE,
                                           softfloat_exceptionFlags, dut, ref)} :
     \E again \in {[compare_with_softfloat(cc[1], cc[2], TRUE, FALSE,
                                            first.flags_after, dut, ref)
                       EXCEPT !.drives = 2, !.diag = TRUE,
                              !.steps = first.steps \o @]} :
     \E passed \in {[first EXCEPT !.diag = (first.diag \/ verbose)]} :
           IF ~first.overall_pass
           THEN IF ~verbose
                THEN Abort(again)
                ELSE Abort(first)
           ELSE /\ Evaluated(passed)
                /\ i' = i + 1
                /\ pc' = (IF i + 1 < num_cc THEN pc ELSE DivAfterCorner)
                /\ subnormal' = SubnormSweepStart
                /\ divisor_idx' = 1
                /\ UNCHANGED <<near_one, systematic_tests, time_counter>>

\* one vector of the subnormal sweep: the inner loop over divisors[] of
\* for (subnormal = 1; subnormal <= 0x007fffff; subnormal += STEP)
DivSubnormalSweep ==
  /\ harness = "div"
  /\ pc = "SUBNORMAL_SWEEP"
  /\ \E dut \in UnitOutputs, ref \in ReferenceOutputs :
     \E r \in {compare_with_softfloat(subnormal, divisors[divisor_idx], TRUE, FALSE,
                                       softfloat_exceptionFlags, dut, ref)} :
     \E nxt \in {Add32(subnormal, SYSTEMATIC_SUBNORM_STEP)} :
       LET last == divisor_idx = Len(divisors)
       IN  IF ~r.overall_pass
           THEN Abort(r)
           ELSE /\ Evaluated(r)
                /\ systematic_tests' = systematic_tests + 1
                /\ divisor_idx' = (IF last THEN 1 ELSE divisor_idx + 1)
                /\ subnormal' = (IF last THEN nxt ELSE subnormal)
                /\ pc' = (IF last /\ ~Le32(nxt, SubnormSweepEnd)
                          THEN "NEAR_ONE_SWEEP" ELSE pc)
                /\ i' = (IF last /\ ~Le32(nxt, SubnormSweepEnd) THEN 0 ELSE i)
                /\ UNCHANGED <<near_one, time_counter>>

\* one iteration of for (uint32_t i = 0; i < BOUNDARY_TEST_RANGE; ++i)
DivNearOneSweep ==
  /\ harness = "div"
  /\ pc = "NEAR_ONE_SWEEP"
  /\ i < BOUNDARY_TEST_RANGE
  /\ \E dut \in UnitOutputs, ref \in ReferenceOutputs :
     \E near_one_a \in {Sub32(Add32(One, Small32(i)), <<\H0000, \H8000>>)} :
     \E near_one_b \in {Sub32(Add32(One, Small32(i * 17)), <<\H0000, \H8000>>)} :
     \E r \in {compare_with_softfloat(near_one_a, near_one_b, TRUE, FALSE,
                                       softfloat_exceptionFlags, dut, ref)} :
           IF ~r.overall_pass
           THEN Abort(r)
           ELSE /\ Evaluated(r)
                /\ systematic_tests' = systematic_tests + 1
                /\ i' = i + 1
                /\ pc' = (IF i + 1 < BOUNDARY_TEST_RANGE THEN pc ELSE "STRATIFIED_RANDOM")
                /\ UNCHANGED <<subnormal, divisor_idx, near_one, time_counter>>

\* one iteration of while (time_counter < TOTAL_STRATIFIED_TESTS)
DivRandom ==
  /\ harness = "div"
  /\ pc = "STRATIFIED_RANDOM"
  /\ time_counter < TotalStratifiedTests
  /\ \E smp \in DivSamples[time_counter % 3] :
       \E dut \in UnitOutputs, ref \in ReferenceOutputs :
             \E r \in {compare_with_softfloat(smp.a, smp.b, FALSE, verbose,
                                               softfloat_exceptionFlags, dut, ref)} :
                 IF ~r.overall_pass
                 THEN Abort(r)
                 ELSE /\ Evaluated(r)
                      /\ time_counter' = time_counter + 1
                      /\ pc' = (IF time_counter + 1 < TotalStratifiedTests
                                THEN pc ELSE "REPORT")
                      /\ UNCHANGED <<i, subnormal, divisor_idx, near_one,
                                     systematic_tests>>

\* the total with the corner cases left out
ReportedTotal_NoCornerCases == systematic_tests + time_counter

\* "Total test vectors: " << (num_cc + systematic_tests + time_counter)
ReportedTotal == num_cc + systematic_tests + time_counter

\* coverage summary, then return 0
DivReport ==
  /\ harness = "div"
  /\ pc = "REPORT"
  /\ report_printed' = TRUE
  /\ exit_code' = 0
  /\ pc' = "EXIT"
  /\ UNCHANGED <<harness, verbose, i, subnormal, divisor_idx, near_one, num_cc,
                 systematic_tests, time_counter, softfloat_exceptionFlags, rec,
                 any_fail, cmp_in, scale, draw, sample, hist>>

(* The sqrt testbench.                                                     *)

\* one iteration of the corner loop: for (int i = 0; i < num_cc; ++i)
SqrtCornerCase ==
  /\ harness = "sqrt"
  /\ pc = "CORNER_CASES"
  /\ i < num_cc
  /\ \E dut \in UnitOutputs, ref \in ReferenceOutputs :
     \E r \in {SqrtCornerEval(sqrt_corner_vals[i + 1], softfloat_exceptionFlags,
                               dut, ref)} :
       /\ Evaluated(r)
       /\ i' = i + 1
       /\ pc' = (IF i + 1 < num_cc THEN pc ELSE "SUBNORMAL_SWEEP")
       /\ subnormal' = SubnormSweepStart
       /\ UNCHANGED <<divisor_idx, near_one, systematic_tests, time_counter>>

\* one iteration of for (subnormal = 1; subnormal <= 0x007fffff; subnormal += 0x1111)
SqrtSubnormalSweep ==
  /\ harness = "sqrt"
  /\ pc = "SUBNORMAL_SWEEP"
  /\ \E dut \in UnitOutputs, ref \in ReferenceOutputs :
     \E nxt \in {Add32(subnormal, SQRT_SUBNORM_STEP)} :
     \E r \in {SqrtSubnormalEval(subnormal, softfloat_exceptionFlags, dut, ref)} :
           /\ Evaluated(r)
           /\ systematic_tests' = systematic_tests + 1
           /\ subnormal' = nxt
           /\ pc' = (IF Le32(nxt, SubnormSweepEnd) THEN pc ELSE "NEAR_ONE_SWEEP")
           /\ near_one' = SqrtNearOneStart
           /\ UNCHANGED <<i, divisor_idx, time_counter>>

\* one iteration of for (near_one = 0x3f7ff000; near_one <= 0x3f801000; near_one++)
SqrtNearOneSweep ==
  /\ harness = "sqrt"
  /\ pc = "NEAR_ONE_SWEEP"
  /\ \E dut \in UnitOutputs :
     \E nxt \in {Add32(near_one, Small32(1))} :
     \E r \in {SqrtNearOneEval(near_one, softfloat_exceptionFlags, dut)} :
           /\ Evaluated(r)
           /\ systematic_tests' = systematic_tests + 1
           /\ near_one' = nxt
           /\ pc' = (IF Le32(nxt, SqrtNearOneEnd) THEN pc ELSE "STRATIFIED_RANDOM")
           /\ UNCHANGED <<i, subnormal, divisor_idx, time_counter>>

\* one iteration of while (time_counter < TOTAL_STRATIFIED_TESTS)
SqrtRandom ==
  /\ harness = "sqrt"
  /\ pc = "STRATIFIED_RANDOM"
  /\ time_counter < TotalStratifiedTests
  /\ \E smp \in SqrtSamples :
       \E dut \in UnitOutputs, ref \in ReferenceOutputs :
           \E r \in {SqrtRandomEval(smp.a, softfloat_exceptionFlags, dut, ref)} :
             /\ Evaluated(r)
             /\ time_counter' = time_counter + 1
             /\ pc' = (IF time_counter + 1 < TotalStratifiedTests THEN pc ELSE "REPORT")
             /\ UNCHANGED <<i, subnormal, divisor_idx, near_one, systematic_tests>>

\* coverage summary, then return 0
SqrtReport ==
  /\ harness = "sqrt"
  /\ pc = "REPORT"
  /\ report_printed' = TRUE
  /\ exit_code' = 0
  /\ pc' = "EXIT"
  /\ UNCHANGED <<harness, verbose, i, subnormal, divisor_idx, near_one, num_cc,
                 systematic_tests, time_counter, softfloat_exceptionFlags, rec,
                 any_fail, cmp_in, scale, draw, sample, hist>>

Next ==
  \/ Start
  \/ DivCornerCase
  \/ DivSubnormalSweep
  \/ DivNearOneSweep
  \/ DivRandom
  \/ DivReport
  \/ SqrtCornerCase
  \/ SqrtSubnormalSweep
  \/ SqrtNearOneSweep
  \/ SqrtRandom
  \/ SqrtReport

Spec == Init /\ [][Next]_vars

\* the run of one testbench with the narrow outcome sets
InitLive ==
  /\ scale = "live"
  /\ harness \in {"div", "sqrt"}
  /\ verbose \in BOOLEAN
  /\ pc = "START"
  /\ i = 0
  /\ subnormal = SubnormSweepStart
  /\ divisor_idx = 1
  /\ near_one = SqrtNearOneStart
  /\ num_cc = 0
  /\ systematic_tests = 0
  /\ time_counter = 0
  /\ softfloat_exceptionFlags = 0
  /\ exit_code = -1
  /\ report_printed = FALSE
  /\ rec = NoRec
  /\ any_fail = FALSE
  /\ cmp_in = NoRec
  /\ draw = NoDraw
  /\ sample = NoSample
  /\ hist = NoHist

\* main() is sequential code that runs on: a step that can be taken is taken
SpecLive == InitLive /\ [][Next]_vars /\ WF_vars(Next)

-----------------------------------------------------------------------------
(* One comparison in isolation: the unit's outputs and the reference's      *)
(* answer are drawn from wider sets and each comparison site of the source  *)
(* is applied to them once.                                                 *)

CmpPatterns ==
  { PosZero, NegZero, One,
    <<\H3F80, \H0001>>,      \* 1.0 + 1 ULP
    <<\HBF80, \H0000>>,      \* -1.0
    <<\H7F7F, \HFFFF>>,      \* largest finite
    <<\H7F80, \H0000>>,      \* +infinity
    <<\HFF80, \H0000>>,      \* -infinity
    QNaN,                    \* 0x7fc00000
    <<\HFFA0, \H0001>> }     \* a negative signalling NaN with a payload

CmpDutFlagWords == 0 .. 31
CmpRefFlagWords == {0, 1, 2, 4, 8, 16, 31}

InitCmp ==
  /\ scale = "bounded"
  /\ harness = "cmp"
  /\ verbose = FALSE
  /\ pc = "CMP"
  /\ i = 0
  /\ subnormal = SubnormSweepStart
  /\ divisor_idx = 1
  /\ near_one = SqrtNearOneStart
  /\ num_cc = 0
  /\ systematic_tests = 0
  /\ time_counter = 0
  /\ softfloat_exceptionFlags = 0
  /\ exit_code = -1
  /\ report_printed = FALSE
  /\ rec = NoRec
  /\ any_fail = FALSE
  /\ cmp_in \in [dut : {DutOutput(y, w) : y \in CmpPatterns, w \in CmpDutFlagWords},
                 ref : {RefOutput(v, w) : v \in CmpPatterns, w \in CmpRefFlagWords}]
  /\ draw = NoDraw
  /\ sample = NoSample
  /\ hist = NoHist

Compared(r) ==
  /\ pc = "CMP"
  /\ rec' = r
  /\ softfloat_exceptionFlags' = r.flags_after
  /\ pc' = "CMP_DONE"
  /\ UNCHANGED <<harness, verbose, i, subnormal, divisor_idx, near_one, num_cc,
                 systematic_tests, time_counter, exit_code, report_printed,
                 any_fail, cmp_in, scale, draw, sample, hist>>

CmpDiv ==
  Compared(compare_with_softfloat(One, One, FALSE, FALSE, softfloat_exceptionFlags,
                                  cmp_in.dut, cmp_in.ref))

CmpSqrtCorner ==
  Compared(SqrtCornerEval(One, softfloat_exceptionFlags, cmp_in.dut, cmp_in.ref))

CmpSqrtSubnormal ==
  Compared(SqrtSubnormalEval(One, softfloat_exceptionFlags, cmp_in.dut, cmp_in.ref))

CmpSqrtRandom ==
  Compared(SqrtRandomEval(One, softfloat_exceptionFlags, cmp_in.dut, cmp_in.ref))

NextCmp ==
  \/ CmpDiv
  \/ CmpSqrtCorner
  \/ CmpSqrtSubnormal
  \/ CmpSqrtRandom

SpecCmp == InitCmp /\ [][NextCmp]_vars

-----------------------------------------------------------------------------
(* One pass through the sampler in isolation: the values the generators     *)
(* return are drawn from sets that hold every residue of the region         *)
(* selection and, for every region, the draws that land on its first and    *)
(* on its last pattern.                                                     *)

\* largest draw index of an isolated sample
MaxDrawIndex == 3

Max32 == <<Half - 1, Half - 1>>

\* end - start of every region of the two tables
RangesOf(regions) ==
  {Sub32(regions[k].end, regions[k].start) : k \in 1 .. Len(regions)}

RegionRanges == (RangesOf(div_regions) \cup RangesOf(sqrt_regions)) \ {Zero32}

\* draws that cover every value of dis(gen1) % total_weight, and one above
SelectDraws == {Small32(n) : n \in 0 .. total_weight(div_regions)} \cup {Max32}

\* for every region of the two tables the smallest draw that selects it
PickersOf(regions) ==
  {Small32(SumWeights(regions, k - 1)) : k \in 1 .. Len(regions)}

RegionPickers == PickersOf(div_regions) \cup PickersOf(sqrt_regions)

\* draws for the first operand: 0, range - 1, range and range + 1 of every
\* region, and the largest value
OperandDraws ==
  {Zero32, Max32} \cup RegionRanges
    \cup {Sub32(r, Small32(1)) : r \in RegionRanges}
    \cup {Add32(r, Small32(1)) : r \in RegionRanges}

\* draws of gen2: 0, the range of every region, the largest value
SecondDraws == {Zero32, Max32} \cup RegionRanges

\* draws of gen3
ThirdDraws == {Zero32, One, Max32}

SampleDraws ==
  [raw_sel : SelectDraws, raw_a : {Zero32}, raw_b2 : {Zero32}, raw_b3 : {Max32}]
    \cup [raw_sel : RegionPickers, raw_a : OperandDraws,
           raw_b2 : SecondDraws, raw_b3 : ThirdDraws]

InitSample ==
  /\ scale = "bounded"
  /\ harness = "sample"
  /\ verbose = FALSE
  /\ pc = "SAMPLE"
  /\ i = 0
  /\ subnormal = SubnormSweepStart
  /\ divisor_idx = 1
  /\ near_one = SqrtNearOneStart
  /\ num_cc = 0
  /\ systematic_tests = 0
  /\ time_counter \in 0 .. MaxDrawIndex
  /\ softfloat_exceptionFlags = 0
  /\ exit_code = -1
  /\ report_printed = FALSE
  /\ rec = NoRec
  /\ any_fail = FALSE
  /\ cmp_in = NoRec
  /\ draw \in SampleDraws
  /\ sample = NoSample
  /\ hist = NoHist

Sampled(smp) ==
  /\ pc = "SAMPLE"
  /\ sample' = smp
  /\ pc' = "SAMPLE_DONE"
  /\ UNCHANGED <<harness, verbose, i, subnormal, divisor_idx, near_one, num_cc,
                 systematic_tests, time_counter, softfloat_exceptionFlags,
                 exit_code, report_printed, rec, any_fail, cmp_in, scale, draw, hist>>

SampleDiv == Sampled(DivSample(time_counter, draw))

SampleSqrt == Sampled(SqrtSample(draw))

NextSample ==
  \/ SampleDiv
  \/ SampleSqrt

SpecSample == InitSample /\ [][NextSample]_vars

-----------------------------------------------------------------------------
(* The two sweeps at the lengths of the source.  The run starts where the   *)
(* corner loop has ended without a failure: every catalog entry has been    *)
(* evaluated, the last one being the last vector on record.  The random     *)
(* loop that follows keeps its bounded length.                              *)

LastCornerRecord(h) ==
  LET agree_dut == DutOutput(PosZero, 0)
      agree_ref == RefOutput(PosZero, 0)
      r == IF h = "div"
           THEN LET cc == div_corner_cases[Len(div_corner_cases)]
                IN  compare_with_softfloat(cc[1], cc[2], TRUE, FALSE, 0,
                                           agree_dut, agree_ref)
           ELSE SqrtCornerEval(sqrt_corner_vals[Len(sqrt_corner_vals)], 0,
                               agree_dut, agree_ref)
  IN  [r EXCEPT !.phase = "CORNER_CASES"]

InitSweep ==
  /\ scale = "full"
  /\ harness \in {"div", "sqrt"}
  /\ verbose = FALSE
  /\ pc = "SUBNORMAL_SWEEP"
  /\ num_cc = (IF harness = "div" THEN Len(div_corner_cases) ELSE Len(sqrt_corner_vals))
  /\ i = num_cc
  /\ subnormal = SubnormSweepStart
  /\ divisor_idx = 1
  /\ near_one = SqrtNearOneStart
  /\ systematic_tests = 0
  /\ time_counter = 0
  /\ softfloat_exceptionFlags = 0
  /\ exit_code = -1
  /\ report_printed = FALSE
  /\ rec = LastCornerRecord(harness)
  /\ any_fail = FALSE
  /\ cmp_in = NoRec
  /\ draw = NoDraw
  /\ sample = NoSample
  /\ hist = [NoHist EXCEPT !.corner = num_cc]

\* the steps of main() from the subnormal sweep on
NextSweep ==
  \/ DivSubnormalSweep
  \/ DivNearOneSweep
  \/ DivRandom
  \/ DivReport
  \/ SqrtSubnormalSweep
  \/ SqrtNearOneSweep
  \/ SqrtRandom
  \/ SqrtReport

SpecSweep == InitSweep /\ [][NextSweep]_vars

-----------------------------------------------------------------------------
(* Properties.                                                             *)

\* the 5-bit word invalid=bit4, divide-by-zero=bit3, overflow=bit2,
\* underflow=bit1, inexact=bit0 of the unit's five exception outputs
FlagWord(d) ==
  16 * d.exc_invalid + 8 * d.exc_divzero + 4 * d.exc_overflow
    + 2 * d.exc_underflow + d.exc_inexact

\* exponent all ones, mantissa non-zero, any sign
NaNEncoding(x) ==
  /\ x[1] % 32768 >= 32640            \* 0x7F80: the eight exponent bits are set
  /\ <<x[1] % 128, x[2]>> # <<0, 0>>

\* both NaN, or bit-identical, or both zeros of either sign
EquivalentValues(x, y) ==
  \/ NaNEncoding(x) /\ NaNEncoding(y)
  \/ x = y
  \/ x \in {PosZero, NegZero} /\ y \in {PosZero, NegZero}

\* the run was ended by return 1
Aborted == pc = "EXIT" /\ exit_code = 1

SweepLoops == {"SUBNORMAL_SWEEP", "NEAR_ONE_SWEEP"}

\* C1: in the divider harness a vector whose overall_pass is false, in any of
\* the three phases, is the last vector of the run: the run has ended with
\* exit status 1 and the final report has not been printed.
C1_DivFirstFailureAborts ==
  (harness = "div" /\ rec.site = "div" /\ ~rec.overall_pass)
    => (Aborted /\ ~report_printed)

C1_Witness ==
  /\ harness = "div"
  /\ rec.phase = "STRATIFIED_RANDOM"
  /\ ~rec.overall_pass
  /\ Aborted

\* C2: the sqrt harness exits with status 0 only if no executed vector
\* disagreed with its reference in value or flags, and a disagreeing vector
\* is the last one evaluated: the run has ended with exit status 1.
C2_SqrtExitStatus ==
  harness = "sqrt" =>
    /\ exit_code = 0 => ~any_fail
    /\ Mismatch(rec) => Aborted

\* position of a loop of main() in the order of the phases
Rank(p) ==
  CASE p = "START"             -> 0
    [] p = "CORNER_CASES"      -> 1
    [] p \in SweepLoops        -> 2
    [] p = "STRATIFIED_RANDOM" -> 3
    [] p = "REPORT"            -> 4
    [] OTHER                   -> 5

PhaseStep ==
  /\ pc' # pc =>
       \/ pc' = "EXIT" /\ exit_code' = 1
       \/ /\ Rank(pc') = Rank(pc) + 1
          /\ pc' # "EXIT" \/ exit_code' = 0
       \/ pc = "SUBNORMAL_SWEEP" /\ pc' = "NEAR_ONE_SWEEP"
  /\ (pc = "CORNER_CASES" /\ Rank(pc') > 1 /\ pc' # "EXIT") => i' = num_cc
  /\ (pc \in SweepLoops /\ Rank(pc') > 2 /\ pc' # "EXIT") =>
       /\ pc = "NEAR_ONE_SWEEP"
       /\ harness = "div" => i' = BOUNDARY_TEST_RANGE
       /\ harness = "sqrt" => Gt32(near_one', SqrtNearOneEnd)
  /\ pc' = "REPORT" => time_counter' = TotalStratifiedTests
  /\ (report_printed' /\ ~report_printed) => pc = "REPORT"
  /\ (rec' # rec) => rec'.phase = pc

\* C3: in both harnesses the loops of main() are entered in the order corner
\* cases, systematic sweep, stratified random, report; none is skipped or
\* entered again, each is left for the next one only when its loop has run
\* to its end, and the report is printed only from the report position.
C3_PhaseOrder == [][PhaseStep]_vars

C3_Witness ==
  /\ pc = "EXIT"
  /\ exit_code = 0
  /\ report_printed
  /\ i > 0
  /\ systematic_tests > 0
  /\ time_counter = TotalStratifiedTests

\* C4: in both harnesses a corner-case vector is judged by value and flags,
\* a corner-case vector that disagrees with its reference in either ends the
\* run, and the systematic sweep starts only if no corner-case vector
\* disagreed.
C4_CornerCaseContract ==
  /\ rec.phase = "CORNER_CASES" =>
       /\ rec.value_checked /\ rec.flag_checked
       /\ Mismatch(rec) => Aborted
  /\ (pc = "SUBNORMAL_SWEEP" /\ systematic_tests = 0) => ~any_fail

\* C5: in both harnesses every vector of the two sweeps is compared with the
\* reference in value and in flags, and a mismatch of either kind ends the run.
C5_SweepContract ==
  rec.phase \in SweepLoops =>
    /\ rec.ref_called /\ rec.value_checked /\ rec.flag_checked
    /\ Mismatch(rec) => Aborted

\* C6: wherever a value verdict is computed, two NaN encodings pass the value
\* comparison and their ulp_diff is 0.
C6_NaNEquivalence ==
  (rec.value_checked /\ NaNEncoding(rec.dut.y) /\ NaNEncoding(rec.ref.v))
    => (rec.value_pass /\ rec.ulp_diff = Zero32)

\* C7: wherever a value verdict is computed, +0 against -0 (either way round)
\* has ulp_diff 0 and passes the value comparison, and with different flag
\* words the vector is still reported as failed.
C7_SignedZero ==
  (rec.value_checked /\ rec.dut.y # rec.ref.v
     /\ rec.dut.y \in {PosZero, NegZero} /\ rec.ref.v \in {PosZero, NegZero})
    => /\ rec.ulp_diff = Zero32
       /\ rec.value_pass
       /\ FlagWord(rec.dut) # rec.ref.raised => ~rec.overall_pass

\* C8: wherever a value verdict is computed, it is true exactly when the two
\* patterns are both NaN, bit-identical, or both zeros.
C8_StrictValuePolicy ==
  rec.value_checked => (rec.value_pass <=> EquivalentValues(rec.dut.y, rec.ref.v))

C8_Witness ==
  /\ rec.site = "div"
  /\ rec.ref.v = <<\H7F80, \H0000>>
  /\ rec.dut.y = <<\H7F7F, \HFFFF>>
  /\ rec.ulp_diff = <<0, 1>>
  /\ ~rec.value_pass

\* C9: the harness's unit flag word is invalid=bit4, divide-by-zero=bit3,
\* overflow=bit2, underflow=bit1, inexact=bit0; the flag comparison passes
\* exactly when that word equals the reference's flag word; and overall_pass,
\* where it is computed, is value_pass and flag_pass.
C9_FlagEquivalence ==
  rec.flag_checked =>
    /\ rec.rtl_flags = FlagWord(rec.dut)
    /\ rec.flag_pass <=> (FlagWord(rec.dut) = rec.ref.raised)
    /\ rec.overall_checked => (rec.overall_pass <=> (rec.value_pass /\ rec.flag_pass))

C9_Witness ==
  /\ rec.site = "sqrt_random"
  /\ rec.value_pass
  /\ FlagWord(rec.dut) = 17
  /\ rec.ref.raised = 16
  /\ ~rec.flag_pass
  /\ ~rec.overall_pass

\* C10: the flag word read after a reference call holds exactly the flags that
\* call raised, whatever the accumulator held when the evaluation started.
C10_RefFlagIsolation ==
  rec.ref_called =>
    /\ rec.math_flags = rec.ref.raised
    /\ softfloat_exceptionFlags = rec.ref.raised

C10_Witness ==
  /\ rec.ref_called
  /\ rec.flags_before = 16
  /\ rec.ref.raised = 0
  /\ rec.math_flags = 0

\* C11: in both harnesses and in every phase a vector that disagrees with its
\* reference (in value, in flags only, or in both) gets a diagnostic line
\* with verbose mode on or off, and a vector that agrees with its reference
\* gets a line only in verbose mode.
C11_DiagnosticsOnFailure ==
  (rec.ref_called /\ rec.phase # "NONE") =>
    /\ Mismatch(rec) => rec.diag
    /\ (~Mismatch(rec) /\ rec.diag) => verbose

\* x lies in the inclusive range of region r
InRegion(x, r) == Le32(r.start, x) /\ Le32(x, r.end)

\* the pattern x with the sign bit set
WithSignBit(x) == <<(x[1] % 32768) + 32768, x[2]>>

TableOf(name) == IF name = "div" THEN div_regions ELSE sqrt_regions

\* start <= end and a positive weight everywhere; increasing order; two
\* regions share at most one boundary pattern; no pattern between 0 and
\* 0xFFFFFFFF is left out
TableShape(regions) ==
  LET n == Len(regions)
  IN  /\ \A k \in 1 .. n :
           /\ Le32(regions[k].start, regions[k].end)
           /\ regions[k].weight \in Nat \ {0}
      /\ regions[1].start = Zero32
      /\ regions[n].end = Max32
      /\ \A k \in 1 .. n - 1 :
           /\ Gt32(regions[k + 1].start, regions[k].start)
           /\ Le32(regions[k].end, regions[k + 1].end)
           /\ Le32(regions[k].end, regions[k + 1].start)
           /\ regions[k].end # Max32
           /\ Le32(regions[k + 1].start, Add32(regions[k].end, Small32(1)))
      /\ \A j, k \in 1 .. n : k + 1 < j => Gt32(regions[j].start, regions[k].end)

\* C12: the table the sampler works on has the stated shape: 14 regions for
\* the divider, the last 7 being the first 7 with the sign bit set and the
\* same weight; 9 regions for the sqrt unit, the only ones with negative
\* patterns being the singleton 0x80000000 and [0x80000001, 0xFFFFFFFF];
\* start <= end, positive weights, increasing order, at most a boundary
\* pattern shared, the whole 32-bit space covered (every sampled operand
\* lies in one region, or in two when it is a shared boundary).
C12_RegionTableShape ==
  sample.table # "none" =>
    LET regions == TableOf(sample.table)
        holders(x) == {k \in 1 .. Len(regions) : InRegion(x, regions[k])}
    IN  /\ TableShape(regions)
        /\ sample.table = "div" =>
             /\ Len(regions) = 14
             /\ \A k \in 1 .. 7 :
                  /\ regions[k].end[1] < 32768
                  /\ regions[k + 7] = Region(WithSignBit(regions[k].start),
                                             WithSignBit(regions[k].end),
                                             regions[k].weight)
        /\ sample.table = "sqrt" =>
             /\ Len(regions) = 9
             /\ {k \in 1 .. Len(regions) : regions[k].end[1] >= 32768} = {8, 9}
             /\ regions[8].start = NegZero /\ regions[8].end = NegZero
             /\ regions[9].start = <<\H8000, \H0001>> /\ regions[9].end = Max32
        /\ Cardinality(holders(sample.a)) \in {1, 2}
        /\ Cardinality(holders(sample.b)) \in {1, 2}
        /\ Cardinality(holders(sample.a)) = 2 =>
             \E k \in holders(sample.a) : regions[k].start = sample.a

C12_Witness ==
  /\ sample.table = "sqrt"
  /\ sample.region = Region(NegZero, NegZero, 5)
  /\ sample.a = NegZero

\* the low 31 bits of a pattern as a number
MagnitudeOf(x) == (x[1] % 32768) * Half + x[2]

\* sum of the two magnitudes, as halves; hi stays below 2^16, so that the sum
\* is below 2^32
MagnitudeSum(x, y) ==
  LET lo == x[2] + y[2]
      hi == (x[1] % 32768) + (y[1] % 32768) + (lo \div Half)
  IN  <<hi, lo % Half>>

MagnitudeDistance(x, y) ==
  LET d == IF MagnitudeOf(x) >= MagnitudeOf(y)
           THEN MagnitudeOf(x) - MagnitudeOf(y)
           ELSE MagnitudeOf(y) - MagnitudeOf(x)
  IN  <<d \div Half, d % Half>>

\* C13: wherever ulp_diff is computed, for a pair that is not a NaN pair and
\* not bit-identical it is the sum of the two magnitudes when the sign bits
\* differ and the absolute difference of the magnitudes when they agree; the
\* sum is below 2^32, so nothing wraps.
C13_UlpDistance ==
  (rec.value_checked /\ rec.dut.y # rec.ref.v
     /\ ~(NaNEncoding(rec.dut.y) /\ NaNEncoding(rec.ref.v)))
    => IF (rec.dut.y[1] >= 32768) # (rec.ref.v[1] >= 32768)
       THEN /\ rec.ulp_diff = MagnitudeSum(rec.dut.y, rec.ref.v)
            /\ MagnitudeSum(rec.dut.y, rec.ref.v)[1] < Half
       ELSE rec.ulp_diff = MagnitudeDistance(rec.dut.y, rec.ref.v)

C13_Witness ==
  /\ rec.site = "div"
  /\ rec.dut.y = <<\HBF80, \H0000>>
  /\ rec.ref.v = One
  /\ rec.ulp_diff = <<\H7F00, \H0000>>

\* C14: the region selection reduces the draw to d in [0, total_weight),
\* always selects a region, and selects the first region of the table whose
\* cumulative weight is greater than d; weight(R) values of d select R; the
\* total weight is 136 for the divider and 100 for the sqrt unit.
C14_WeightedSelection ==
  sample.table # "none" =>
    LET regions == TableOf(sample.table)
        total   == total_weight(regions)
        d       == sample.region_select
        idx     == sample.region_idx
    IN  /\ total = (IF sample.table = "div" THEN 136 ELSE 100)
        /\ d \in 0 .. total - 1
        /\ draw.raw_sel[1] = 0 => d = draw.raw_sel[2] % total
        /\ idx \in 1 .. Len(regions)
        /\ sample.region = regions[idx]
        /\ SumWeights(regions, idx) > d
        /\ \A k \in 1 .. idx - 1 : SumWeights(regions, k) <= d
        /\ Cardinality({n \in 0 .. total - 1 : SelectRegion(regions, n) = idx})
             = regions[idx].weight

C14_Witness ==
  /\ sample.table = "div"
  /\ draw.raw_sel = <<0, 135>>
  /\ sample.region_select = 135
  /\ sample.region_idx = 14

\* the first operand the sampler of table name makes of the draw raw
FirstOperandOf(name, region, raw) ==
  IF name = "div" THEN DivFirstOperand(region, raw) ELSE SqrtOperand(region, raw)

\* some region of the table and some draw give the pattern x as first operand
Producible(name, x) ==
  \E k \in 1 .. Len(TableOf(name)), raw \in OperandDraws :
    FirstOperandOf(name, TableOf(name)[k], raw) = x

\* C15: in both harnesses the first operand lies in the inclusive range of
\* the selected region, the first and the last pattern of that range are
\* both produced by some draw, and 0x7fffffff and 0xffffffff are produced
\* from some region.
C15_FirstOperandRange ==
  sample.table # "none" =>
    /\ InRegion(sample.a, sample.region)
    /\ \E raw \in OperandDraws :
         FirstOperandOf(sample.table, sample.region, raw) = sample.region.start
    /\ \E raw \in OperandDraws :
         FirstOperandOf(sample.table, sample.region, raw) = sample.region.end
    /\ Producible(sample.table, <<\H7FFF, \HFFFF>>)
    /\ Producible(sample.table, Max32)

\* C16: in the divider, when the draw index is a multiple of 3 the second
\* operand lies in the inclusive range of the region selected for the first
\* operand and is made of one value of gen2 (none of gen3); otherwise it is
\* the value of gen3 as it is (none of gen2); in both cases it does not
\* depend on the value of gen1 that made the first operand.
C16_SecondOperandPolicy ==
  sample.table = "div" =>
    /\ IF time_counter % 3 = 0
       THEN /\ InRegion(sample.b, sample.region)
            /\ sample.used.gen2 = 1 /\ sample.used.gen3 = 0
            /\ \A other \in ThirdDraws :
                 DivSample(time_counter, [draw EXCEPT !.raw_b3 = other]).b = sample.b
       ELSE /\ sample.b = draw.raw_b3
            /\ sample.used.gen3 = 1 /\ sample.used.gen2 = 0
    /\ \A other \in OperandDraws :
         DivSample(time_counter, [draw EXCEPT !.raw_a = other]).b = sample.b
    /\ sample.used.gen1 = 2

C16_Witness ==
  /\ sample.table = "div"
  /\ time_counter = 3
  /\ sample.region_idx = 7
  /\ sample.b = <<\H7FFF, \HFFFF>>
  /\ draw.raw_b3 = Zero32

\* a vector is evaluated by this step
VectorStep == hist' # hist

\* position of a divisor in divisors[]
DivisorIndex(b) == CHOOSE k \in 1 .. Len(divisors) : divisors[k] = b

\* stride and last pattern of the subnormal sweep, as numbers
SubnormStride == 4369          \* 0x1111
SubnormLast   == 8388607       \* 0x007FFFFF

SubnormalSweepStep ==
  /\ (VectorStep /\ rec'.phase = "SUBNORMAL_SWEEP") =>
       /\ rec'.a[1] < 128                        \* below 0x00800000: ToInt is exact
       /\ ToInt(rec'.a) \in 1 .. SubnormLast
       /\ (ToInt(rec'.a) - 1) % SubnormStride = 0
       /\ harness = "div" => rec'.b \in {divisors[k] : k \in 1 .. Len(divisors)}
       /\ IF rec.phase # "SUBNORMAL_SWEEP"
          THEN /\ ToInt(rec'.a) = 1
               /\ harness = "div" => rec'.b = divisors[1]
          ELSE IF harness = "div" /\ rec.b # divisors[Len(divisors)]
          THEN /\ rec'.a = rec.a
               /\ DivisorIndex(rec'.b) = DivisorIndex(rec.b) + 1
          ELSE /\ ToInt(rec'.a) = ToInt(rec.a) + SubnormStride
               /\ harness = "div" => rec'.b = divisors[1]
  /\ (pc = "SUBNORMAL_SWEEP" /\ pc' = "NEAR_ONE_SWEEP") =>
       /\ ToInt(rec'.a) + SubnormStride > SubnormLast
       /\ harness = "div" => rec'.b = divisors[Len(divisors)]
       /\ systematic_tests' =
            (IF harness = "div" THEN Len(divisors) ELSE 1)
              * (((SubnormLast - 1) \div SubnormStride) + 1)

\* C17: in both harnesses the subnormal sweep starts at 0x00000001, goes on in
\* steps of 0x1111 without wrapping, stays inside [0x00000001, 0x007FFFFF]
\* and is left only after the last value of that range; the divider
\* evaluates each value with its 5 divisors in table order.
C17_SubnormalSweepCoverage == [][SubnormalSweepStep]_vars

C17_Witness ==
  /\ harness = "div"
  /\ pc = "NEAR_ONE_SWEEP"
  /\ rec.phase = "SUBNORMAL_SWEEP"
  /\ rec.a = <<\H007F, \HFF81>>
  /\ rec.b = divisors[5]
  /\ systematic_tests = 9605

\* 0x3f800000 and the half width 0x8000 as numbers
OneBits      == 1065353216
NearOneWidth == 32768

NearOneSweepStep ==
  /\ (VectorStep /\ rec'.phase = "NEAR_ONE_SWEEP") =>
       /\ rec'.a[1] < 32768 /\ rec'.b[1] < 32768          \* ToInt is exact
       /\ rec.phase = "NEAR_ONE_SWEEP" => ToInt(rec'.a) = ToInt(rec.a) + 1
       /\ harness = "div" =>
            /\ ToInt(rec'.a) = OneBits + i - NearOneWidth
            /\ ToInt(rec'.b) = OneBits + 17 * i - NearOneWidth
  /\ (pc = "NEAR_ONE_SWEEP" /\ pc' = "STRATIFIED_RANDOM") =>
       /\ OneBits - ToInt(hist'.sweep_first) = ToInt(rec'.a) - OneBits
       /\ harness = "div" => OneBits - ToInt(hist'.sweep_first) = NearOneWidth

\* C18: in both harnesses the first operand of the near-one sweep goes up by
\* one pattern per vector, and when the sweep is left the first and the last
\* pattern visited are at the same distance from 0x3f800000; in the divider
\* that distance is 0x8000 and the operands of step i are
\* 0x3f800000 + i - 0x8000 and 0x3f800000 + 17*i - 0x8000, without wrapping.
C18_NearOneWindow == [][NearOneSweepStep]_vars

RandomStep ==
  (VectorStep /\ pc = "STRATIFIED_RANDOM") =>
    /\ time_counter = hist.random
    /\ time_counter < TotalStratifiedTests
    /\ hist'.random = hist.random + 1
    /\ pc' # "EXIT" => time_counter' = time_counter + 1

TallyAtReport ==
  pc = "REPORT" =>
    /\ ~report_printed
    /\ time_counter = TotalStratifiedTests
    /\ hist.random = TotalStratifiedTests
    /\ systematic_tests = hist.systematic
    /\ num_cc = hist.corner
    /\ ReportedTotal = hist.corner + hist.systematic + hist.random

\* C19: the random counter equals the number of random vectors evaluated so
\* far (0 at the start, one more per vector); the random phase always comes
\* to an end, at the report unless a vector failed in the divider; at the report
\* the counter is TOTAL_STRATIFIED_TESTS, the systematic count is the number
\* of sweep vectors evaluated and the reported total is the sum of the
\* three phase counts.
C19_RandomPhaseTally ==
  /\ [][RandomStep]_vars
  /\ []TallyAtReport
  /\ (pc = "STRATIFIED_RANDOM") ~> (pc = "REPORT" \/ Aborted)

C19_Witness ==
  /\ pc = "REPORT"
  /\ harness = "div"
  /\ hist.random = TotalStratifiedTests
  /\ hist.systematic > 0
  /\ hist.corner > 0

\* the steps the specification gives for one vector
VectorSteps == <<"set", "eval", "read_y", "read_flags", "ref", "compare">>

\* C20: for every vector in every phase of both testbenches the steps are set
\* inputs, evaluate unit, read the result bits and the five flags, compute
\* reference, compare, in this order: every output of the unit is read before
\* the reference is computed, and the vector is driven into the unit exactly
\* once.
C20_StepOrder ==
  rec.site # "none" =>
    /\ rec.steps = VectorSteps
    /\ rec.drives = 1

=============================================================================
